---- MODULE Spec2Model ----
(***************************************************************************)
(* ERPC: publish/subscribe RPC over a raw serial byte stream.              *)
(* Two endpoints (Tx = the OneWayTx sketch, Rx = the OneWayRx sketch) each *)
(* own one ERPC object; link[e] holds the raw bytes in flight towards e.   *)
(***************************************************************************)
EXTENDS Integers, Sequences, FiniteSets, TLC

\* ------------------------------------------------------------------------
\* Program constants
\* ------------------------------------------------------------------------
FRAME_START == 126
ESCAPE_CHARACTER == 127

NO_ERROR == 0
NOT_SUBSCRIBED_ERROR == 1
CRC_ERROR == 2
FRAME_TYPE_ERROR == 3
ACK_TIMEOUT_ERROR == 4
PROCESSING_ERROR == 5

\* getTopicIdx's "not found" value
NOT_FOUND == 255
\* topic field value of an acknowledgment frame
ACK_TOPIC == 63
\* highest topic id subscribe() accepts
MAX_TOPIC_ID == 62

IDLE == "IDLE"
RECEIVING_FRAMEINFO == "RECEIVING_FRAMEINFO"
RECEIVING_LENGTH == "RECEIVING_LENGTH"
RECEIVING_DATA == "RECEIVING_DATA"
RECEIVING_CRC == "RECEIVING_CRC"

\* ------------------------------------------------------------------------
\* Bounds and input sets
\* ------------------------------------------------------------------------
\* capacity (maxTopics) the receiving endpoint is constructed with
MaxTopics == 2
\* frames published in one behaviour
MaxFrames == 1
\* the largest timeoutMs publish() is called with
MaxTimeout == 2
\* the modulus of the millisecond clock: above every timeout, as 2^32 is above
\* every uint16_t
ClockMod == MaxTimeout + 2
\* publishes issued one after another
MaxPublishes == 2
\* bytes that arrive at a polling endpoint
MaxAvail == 6

Tx == "Tx"
Rx == "Rx"
Ends == {Tx, Rx}
Peer(e) == IF e = Tx THEN Rx ELSE Tx

\* function pointers: the null pointer, two application callbacks, and the
\* value of a never-initialised pointer
NULL == "nullptr"
WILD == "wild"
Callbacks == {"cbA", "cbB"}

\* what malloc'ed, never written slot memory may hold: zero-filled memory,
\* or arbitrary bytes
GarbageSlots ==
    { [topicId |-> 0, callback |-> NULL, used |-> FALSE],
      [topicId |-> 200, callback |-> WILD, used |-> FALSE] }

\* ------------------------------------------------------------------------
\* CRC16 (CCITT polynomial 0x1021, initial value 0, MSB first)
\* ------------------------------------------------------------------------
Pow2(n) == <<1, 2, 4, 8, 16, 32, 64, 128, 256, 512, 1024, 2048, 4096, 8192,
             16384, 32768, 65536>>[n + 1]

Bit(x, k) == (x \div Pow2(k)) % 2

\* x with bit k inverted
ToggleBit(x, k) == IF Bit(x, k) = 1 THEN x - Pow2(k) ELSE x + Pow2(k)

\* bitwise or of the low n bits
RECURSIVE BitOr(_, _, _)
BitOr(a, b, n) ==
    IF n = 0 THEN 0
    ELSE 2 * BitOr(a \div 2, b \div 2, n - 1) + (IF a % 2 = 1 \/ b % 2 = 1 THEN 1 ELSE 0)

\* one bit of input shifted into the 16-bit register
CrcShift(crc, bit) ==
    LET top == Bit(crc, 15)
        shifted == (crc * 2) % 65536
    IN  IF top # bit
        THEN ToggleBit(ToggleBit(ToggleBit(shifted, 0), 5), 12)
        ELSE shifted

RECURSIVE CrcBits(_, _, _)
CrcBits(crc, byte, n) ==
    IF n = 0 THEN crc
    ELSE CrcShift(CrcBits(crc, byte, n - 1), Bit(byte, 8 - n))

CrcReset == 0
CrcAdd(crc, byte) == CrcBits(crc, byte, 8)
CrcCalc(crc) == crc

\* ------------------------------------------------------------------------
\* Frame encoder.  A writer w = [out, crc] is the bytes handed to the
\* transport so far and the sendCrc16 accumulator.
\* ------------------------------------------------------------------------
\* FrameInfo union: topicId in bits 0-5, isAck bit 6, ackReq bit 7
InfoByte(topicId, isAck, ackReq) ==
    (topicId % 64) + 64 * (IF isAck THEN 1 ELSE 0) + 128 * (IF ackReq THEN 1 ELSE 0)
InfoTopicId(byte) == byte % 64
InfoIsAck(byte) == Bit(byte, 6) = 1
InfoAckReq(byte) == Bit(byte, 7) = 1

serialByteWriteRaw(w, byte) == [w EXCEPT !.out = Append(@, byte)]

serialByteWrite(w, byte, escape, crc) ==
    LET w1 == IF escape /\ (byte = FRAME_START \/ byte = ESCAPE_CHARACTER)
              THEN serialByteWriteRaw(w, ESCAPE_CHARACTER)
              ELSE w
        w2 == serialByteWriteRaw(w1, byte)
    IN  IF crc THEN [w2 EXCEPT !.crc = CrcAdd(@, byte)] ELSE w2

sendFrameStart(w) ==
    serialByteWrite([w EXCEPT !.crc = CrcReset], FRAME_START, FALSE, FALSE)

sendFrameInfo(w, requireAcknowledge, topicId) ==
    serialByteWrite(w, InfoByte(topicId, FALSE, requireAcknowledge), TRUE, TRUE)

sendFrameInfoAck(w) ==
    serialByteWrite(w, InfoByte(ACK_TOPIC, TRUE, FALSE), TRUE, TRUE)

sendFrameLength(w, length) == serialByteWrite(w, length, TRUE, TRUE)

\* the loop of sendData over data[lo .. hi]: the bytes are written in index
\* order, the range is split in halves and the first half is computed before the
\* second is started, which keeps the evaluation shallow
RECURSIVE sendDataFrom(_, _, _, _)
sendDataFrom(w, data, lo, hi) ==
    IF lo > hi THEN w
    ELSE IF lo = hi THEN serialByteWrite(w, data[lo], TRUE, TRUE)
    ELSE LET mid == (lo + hi) \div 2
             first == sendDataFrom(w, data, lo, mid)
         IN  IF first.crc \in 0 .. 65535
             THEN sendDataFrom(first, data, mid + 1, hi)
             ELSE first

sendData(w, data, length) == sendDataFrom(w, data, 1, length)

\* sendCrc() that writes the checksum bytes as they are
sendCrc_Unescaped(w) ==
    LET crcValue == CrcCalc(w.crc)
        hi == serialByteWrite(w, crcValue \div 256, FALSE, FALSE)
    IN  serialByteWrite(hi, crcValue % 256, FALSE, FALSE)

sendCrc(w) ==
    LET crcValue == CrcCalc(w.crc)
        hi == serialByteWrite(w, crcValue \div 256, TRUE, FALSE)
    IN  serialByteWrite(hi, crcValue % 256, TRUE, FALSE)

\* the writes of publish(), before the optional wait
publishWrites(w, topicId, data, length, requireAcknowledge) ==
    sendCrc(sendData(sendFrameLength(
        sendFrameInfo(sendFrameStart(w), requireAcknowledge, topicId),
        length), data, length))

sendAcknowledgeFrame(w, rxStatus) ==
    sendCrc(serialByteWrite(sendFrameLength(sendFrameInfoAck(sendFrameStart(w)), 1),
                            rxStatus % 256, TRUE, TRUE))

\* ------------------------------------------------------------------------
\* The ERPC object
\* ------------------------------------------------------------------------
\* a heap block: the null pointer, or `bytes` (the allocated size is Len(bytes));
\* overrun records a store past the end of the block
NullData == [isNull |-> TRUE, bytes |-> <<>>, overrun |-> FALSE]
\* malloc(n) followed by memset(.., 0, n); malloc(0) may return the null
\* pointer or a block of size 0
Malloc(n, zeroIsNull) ==
    IF n = 0 /\ zeroIsNull THEN NullData
    ELSE [isNull |-> FALSE, bytes |-> [i \in 1 .. n |-> 0], overrun |-> FALSE]

\* ERPC::ERPC: slots is the content malloc() returned; only `used` is written.
\* Members without an initialiser are given 0/FALSE: each is written before
\* the decoder reads it.
ERPC(maxTopics, slots) ==
    [ maxTopics_ |-> maxTopics,
      topics_ |-> [i \in 0 .. maxTopics - 1 |-> [slots[i] EXCEPT !.used = FALSE]],
      currentTopicIdx |-> 0,
      currentTopicId |-> 0,
      receivedData |-> NullData,
      receivedDataCounter |-> 0,
      receivedDataLength |-> 0,
      receivedFrameInfo |-> 0,
      receivedCrc |-> 0,
      receivedFirstCrcByte |-> FALSE,
      currentState |-> IDLE,
      rxStatus |-> NO_ERROR,
      receivedValidAck |-> FALSE,
      receivedAckStatus |-> NO_ERROR,
      sendCrc16 |-> CrcReset,
      receiveCrc16 |-> CrcReset ]

\* ------------------------------------------------------------------------
\* Topic registry
\* ------------------------------------------------------------------------
getTopicIdx(o, topicId) ==
    LET hits == {idx \in 0 .. o.maxTopics_ - 1 : o.topics_[idx].topicId = topicId}
    IN  IF hits = {} THEN NOT_FOUND
        ELSE CHOOSE idx \in hits : \A j \in hits : idx <= j

\* subscribe() that takes slot 0 when no slot is free
subscribe_EvictsWhenFull(o, topicId, callback) ==
    LET free == {i \in 0 .. o.maxTopics_ - 1 : ~o.topics_[i].used}
        first == IF free = {} THEN 0 ELSE CHOOSE i \in free : \A j \in free : i <= j
    IN  IF topicId > MAX_TOPIC_ID THEN [o |-> o, ret |-> FALSE]
        ELSE IF getTopicIdx(o, topicId) = NOT_FOUND /\ o.maxTopics_ > 0
        THEN [o |-> [o EXCEPT !.topics_[first] =
                        [topicId |-> topicId, callback |-> callback, used |-> TRUE]],
              ret |-> TRUE]
        ELSE [o |-> o, ret |-> FALSE]

\* subscribe() without the test of the id's range
subscribe_NoRangeTest(o, topicId, callback) ==
    LET free == {i \in 0 .. o.maxTopics_ - 1 : ~o.topics_[i].used}
        first == CHOOSE i \in free : \A j \in free : i <= j
    IN  IF getTopicIdx(o, topicId) = NOT_FOUND /\ free # {}
        THEN [o |-> [o EXCEPT !.topics_[first] =
                        [topicId |-> topicId, callback |-> callback, used |-> TRUE]],
              ret |-> TRUE]
        ELSE [o |-> o, ret |-> FALSE]

\* result of subscribe(): the object afterwards and the value returned
subscribe(o, topicId, callback) ==
    LET free == {i \in 0 .. o.maxTopics_ - 1 : ~o.topics_[i].used}
        first == CHOOSE i \in free : \A j \in free : i <= j
    IN  IF topicId > MAX_TOPIC_ID THEN [o |-> o, ret |-> FALSE]
        ELSE IF getTopicIdx(o, topicId) = NOT_FOUND /\ free # {}
        THEN [o |-> [o EXCEPT !.topics_[first] =
                        [topicId |-> topicId, callback |-> callback, used |-> TRUE]],
              ret |-> TRUE]
        ELSE [o |-> o, ret |-> FALSE]

unsubscribe(o, topicId) ==
    LET idx == getTopicIdx(o, topicId)
    IN  IF idx # NOT_FOUND
        THEN [o |-> [o EXCEPT !.topics_[idx].used = FALSE], ret |-> TRUE]
        ELSE [o |-> o, ret |-> FALSE]

\* ------------------------------------------------------------------------
\* Frame decoder
\* ------------------------------------------------------------------------
\* serialByteReadRaw blocks until a byte is there: a read needs its bytes
ReadReady(q) ==
    /\ q # <<>>
    /\ (Head(q) = ESCAPE_CHARACTER => Len(q) >= 2)

\* serialByteRead() that hands the raw byte on
serialByteRead_Raw(q) == [byte |-> Head(q), rest |-> Tail(q)]

\* the byte serialByteRead returns and the raw bytes left
serialByteRead(q) ==
    IF Head(q) = ESCAPE_CHARACTER
    THEN [byte |-> q[2], rest |-> SubSeq(q, 3, Len(q))]
    ELSE [byte |-> Head(q), rest |-> Tail(q)]

StateHandleIdle(o, byte) ==
    IF byte = FRAME_START
    THEN [o EXCEPT !.currentState = RECEIVING_FRAMEINFO,
                   !.rxStatus = NO_ERROR,
                   !.receiveCrc16 = CrcReset,
                   !.receivedData = NullData]
    ELSE o

StateHandleReceivingFrameInfo(o, byte) ==
    LET o1 == [o EXCEPT !.receiveCrc16 = CrcAdd(@, byte),
                        !.receivedFrameInfo = byte]
        idx == getTopicIdx(o1, InfoTopicId(byte))
    IN  IF InfoIsAck(byte)
        THEN [o1 EXCEPT !.currentState = RECEIVING_LENGTH]
        ELSE IF idx = NOT_FOUND
        THEN [o1 EXCEPT !.currentTopicId = InfoTopicId(byte),
                        !.currentTopicIdx = idx,
                        !.rxStatus = NOT_SUBSCRIBED_ERROR,
                        !.currentState = IDLE]
        ELSE [o1 EXCEPT !.currentTopicId = InfoTopicId(byte),
                        !.currentTopicIdx = idx,
                        !.currentState = RECEIVING_LENGTH]

StateHandleReceivingLength(o, byte, zeroIsNull) ==
    [o EXCEPT !.receiveCrc16 = CrcAdd(@, byte),
              !.receivedDataLength = byte,
              !.receivedDataCounter = 0,
              !.receivedData = Malloc(byte, zeroIsNull),
              !.currentState = RECEIVING_DATA]

StateHandleReceivingData(o, byte) ==
    IF o.receivedData.isNull
    THEN [o EXCEPT !.currentState = IDLE]
    ELSE
      LET at == o.receivedDataCounter
          stored == IF at < Len(o.receivedData.bytes)
                    THEN [o.receivedData EXCEPT !.bytes[at + 1] = byte]
                    ELSE [o.receivedData EXCEPT !.overrun = TRUE]
          counter == (at + 1) % 256
          o1 == [o EXCEPT !.receiveCrc16 = CrcAdd(@, byte),
                          !.receivedData = stored,
                          !.receivedDataCounter = counter]
      IN  IF counter = o.receivedDataLength
          THEN [o1 EXCEPT !.currentState = RECEIVING_CRC,
                          !.receivedFirstCrcByte = FALSE]
          ELSE o1

\* topicCallback's test: the function it calls, or NULL when it calls none
topicCallback(o) ==
    LET cb == IF o.currentTopicIdx \in DOMAIN o.topics_
              THEN o.topics_[o.currentTopicIdx].callback
              ELSE WILD
    IN  IF cb # NULL /\ ~o.receivedData.isNull THEN cb ELSE NULL

\* a handler's outcome: the object, the callback it has just entered (NULL
\* for none; the rest of the handler then runs when the callback returns),
\* the handler's crcValid, the bytes written
Done(o) == [o |-> o, call |-> NULL, crcValid |-> FALSE, out |-> <<>>]

\* the acknowledgment sent whatever the comparison gave
FinishCrc_AcksAlways(o, crcValid) ==
    LET w == IF InfoAckReq(o.receivedFrameInfo)
             THEN sendAcknowledgeFrame([out |-> <<>>, crc |-> o.sendCrc16], o.rxStatus)
             ELSE [out |-> <<>>, crc |-> o.sendCrc16]
    IN  [o |-> [o EXCEPT !.sendCrc16 = w.crc, !.currentState = IDLE],
         call |-> NULL, crcValid |-> crcValid, out |-> w.out]

\* StateHandleReceivingCrc from the return of topicCallback() on (or from
\* the place of the call, when no function was called)
FinishCrc(o, crcValid) ==
    LET w == IF crcValid /\ InfoAckReq(o.receivedFrameInfo)
             THEN sendAcknowledgeFrame([out |-> <<>>, crc |-> o.sendCrc16], o.rxStatus)
             ELSE [out |-> <<>>, crc |-> o.sendCrc16]
    IN  [o |-> [o EXCEPT !.sendCrc16 = w.crc, !.currentState = IDLE],
         call |-> NULL, crcValid |-> crcValid, out |-> w.out]

\* an acknowledgment frame taken for valid without the comparison
StateHandleReceivingCrc_AckUnchecked(o, byte, junk) ==
    IF ~o.receivedFirstCrcByte
    THEN Done([o EXCEPT !.receivedCrc = (byte * 256) % 65536,
                        !.receivedFirstCrcByte = TRUE])
    ELSE
      LET crc == BitOr(o.receivedCrc, byte, 16)
          crcValid == crc = CrcCalc(o.receiveCrc16)
          o2 == [o EXCEPT !.receivedCrc = crc,
                          !.rxStatus = IF crcValid THEN NO_ERROR ELSE CRC_ERROR]
      IN  IF InfoIsAck(o.receivedFrameInfo)
          THEN [Done([o2 EXCEPT
                      !.receivedValidAck = TRUE,
                      !.receivedAckStatus =
                          IF Len(o.receivedData.bytes) > 0
                          THEN o.receivedData.bytes[1] ELSE junk,
                      !.currentState = IDLE]) EXCEPT !.crcValid = crcValid]
          ELSE IF topicCallback(o2) # NULL
               THEN [o |-> o2, call |-> topicCallback(o2),
                     crcValid |-> crcValid, out |-> <<>>]
               ELSE FinishCrc(o2, crcValid)

\* the handler without its tests of the acknowledgment bit
StateHandleReceivingCrc_AckAsData(o, byte, junk) ==
    IF ~o.receivedFirstCrcByte
    THEN Done([o EXCEPT !.receivedCrc = (byte * 256) % 65536,
                        !.receivedFirstCrcByte = TRUE])
    ELSE
      LET crc == BitOr(o.receivedCrc, byte, 16)
          crcValid == crc = CrcCalc(o.receiveCrc16)
          o2 == [o EXCEPT !.receivedCrc = crc,
                          !.rxStatus = IF crcValid THEN NO_ERROR ELSE CRC_ERROR]
      IN  IF topicCallback(o2) # NULL
          THEN [o |-> o2, call |-> topicCallback(o2),
                crcValid |-> crcValid, out |-> <<>>]
          ELSE FinishCrc(o2, crcValid)

\* junk is what a read of dataPtr[0] of a zero-size block yields
StateHandleReceivingCrc(o, byte, junk) ==
    IF ~o.receivedFirstCrcByte
    THEN Done([o EXCEPT !.receivedCrc = (byte * 256) % 65536,
                        !.receivedFirstCrcByte = TRUE])
    ELSE
      LET crc == BitOr(o.receivedCrc, byte, 16)
          o1 == [o EXCEPT !.receivedCrc = crc]
          crcValid == crc = CrcCalc(o.receiveCrc16)
          isAck == InfoIsAck(o.receivedFrameInfo)
          status == IF crcValid THEN NO_ERROR ELSE CRC_ERROR
          o2 == [o1 EXCEPT !.rxStatus = status]
      IN  IF isAck
          THEN IF crcValid
               THEN [Done([o2 EXCEPT
                      !.receivedValidAck = TRUE,
                      !.receivedAckStatus =
                          IF Len(o.receivedData.bytes) > 0
                          THEN o.receivedData.bytes[1] ELSE junk,
                      !.currentState = IDLE]) EXCEPT !.crcValid = TRUE]
               ELSE Done([o1 EXCEPT !.currentState = IDLE])
          ELSE IF topicCallback(o2) # NULL
               THEN [o |-> o2, call |-> topicCallback(o2),
                     crcValid |-> crcValid, out |-> <<>>]
               ELSE FinishCrc(o2, crcValid)

stateHandle(o, byte, zeroIsNull, junk) ==
    CASE o.currentState = IDLE -> Done(StateHandleIdle(o, byte))
      [] o.currentState = RECEIVING_FRAMEINFO -> Done(StateHandleReceivingFrameInfo(o, byte))
      [] o.currentState = RECEIVING_LENGTH -> Done(StateHandleReceivingLength(o, byte, zeroIsNull))
      [] o.currentState = RECEIVING_DATA -> Done(StateHandleReceivingData(o, byte))
      [] o.currentState = RECEIVING_CRC -> StateHandleReceivingCrc(o, byte, junk)
      [] OTHER -> Done(o)

\* ------------------------------------------------------------------------
\* State
\* ------------------------------------------------------------------------
VARIABLES
    erpc,        \* erpc[e]: the ERPC object of endpoint e
    link,        \* link[e]: raw bytes written by the peer and not yet read by e
    stack,       \* stack[e]: the calls e is inside, innermost first
    lastPublish, \* lastPublish[e]: what e's last publish() returned
    \* observers
    sent,        \* sent[e]: the frame last published towards e, as published
    cbCount,     \* cbCount[e]: callbacks e entered since that frame was published
    lastCb,      \* lastCb[e]: function and arguments of the last callback entered
    wrote,       \* wrote[e]: bytes e wrote since the latest publish() of either
                 \* endpoint, the published frame left out
    nFrames,     \* frames published so far
    lastRet,     \* lastRet[e]: what the last callback of e returned
    crcSeen,     \* crcSeen[e]: the last checksum comparison of e's decoder
    lastCall,    \* lastCall[e]: the latest registry call, its result, and what
                 \* held of its topic id when it was made
    before,      \* before[e]: the slots as they were before that call
    unsubbed,    \* unsubbed[e]: ids that were subscribed, then unsubscribed (true
                 \* returned), and not subscribed (true returned) since
    now,         \* millis(), modulo ClockMod
    timer,       \* timer[e]: startTime, timeoutMs and position of e's
                 \* waitForAcknowledge, with observers of the wait
    answered,    \* answered[n]: what the callback returned for the n-th frame
    pubObs       \* pubObs[e]: e's object and inbound bytes before and after its
                 \* latest publish()

vars == <<erpc, link, stack, lastPublish, sent, cbCount, lastCb, wrote, nFrames,
          lastRet, crcSeen,
          lastCall, before, unsubbed, now, timer, answered, pubObs>>
timeVars == <<now, timer, answered, pubObs>>
frameObs == <<sent, cbCount, lastCb, wrote, nFrames, lastRet, crcSeen>>
callObs == <<lastCall, before>>
regObs == <<lastCall, before, unsubbed>>

NoFrame == [topicId |-> 255, data |-> <<>>, ackReq |-> FALSE, idle |-> FALSE,
            cb |-> NULL, unsub |-> FALSE, intact |-> FALSE, isAck |-> FALSE]
NoCall == [cb |-> NULL, topicId |-> 255, data |-> <<>>, length |-> 0, status |-> 255]
NoCrc == [done |-> FALSE, valid |-> FALSE, isAck |-> FALSE, ackReq |-> FALSE,
          cb |-> NULL, length |-> 0, cbBefore |-> 0, wroteBefore |-> <<>>,
          validAckBefore |-> FALSE, ackStatusBefore |-> NO_ERROR]
NoRegCall == [op |-> "none", topicId |-> 255, callback |-> NULL, ret |-> FALSE,
              subscribed |-> FALSE, unsubscribed |-> FALSE, free |-> FALSE]
NONE == 255 + 1
\* no waitForAcknowledge entered yet
NoTimer == [pc |-> "none", startTime |-> 0, timeoutMs |-> 0, elapsed |-> 0,
            polled |-> TRUE, decoded |-> FALSE, decodedAt |-> 0, status |-> NONE,
            atReturn |-> 0]
NoPub == [done |-> FALSE, ackReq |-> FALSE, before |-> <<>>, after |-> <<>>,
          linkBefore |-> <<>>, linkAfter |-> <<>>, peerWaiting |-> FALSE,
          written |-> <<>>]

\* the callback an occupied slot of o holds for topicId, NULL when there is none
SubscribedCb(o, topicId) ==
    LET hits == {i \in DOMAIN o.topics_ :
                    o.topics_[i].used /\ o.topics_[i].topicId = topicId}
    IN  IF hits = {} THEN NULL ELSE o.topics_[CHOOSE i \in hits : TRUE].callback
IsSubscribed(o, topicId) ==
    \E i \in DOMAIN o.topics_ : o.topics_[i].used /\ o.topics_[i].topicId = topicId

AtApp(e) == stack[e] = <<>>
InWait(e) == stack[e] # <<>> /\ Head(stack[e]).fn = "wait"
InCallback(e) == stack[e] # <<>> /\ Head(stack[e]).fn = "callback"
InLoop(e) == stack[e] # <<>> /\ Head(stack[e]).fn = "loop"

\* the state after construction: Tx built with no slots, Rx with MaxTopics
InitWith(txSlots, rxSlots) ==
    /\ \E g \in [0 .. rxSlots - 1 -> GarbageSlots], h \in [0 .. txSlots - 1 -> GarbageSlots] :
          erpc = [e \in Ends |-> IF e = Rx THEN ERPC(rxSlots, g) ELSE ERPC(txSlots, h)]
    /\ link = [e \in Ends |-> <<>>]
    /\ stack = [e \in Ends |-> <<>>]
    /\ lastPublish = [e \in Ends |-> NONE]
    /\ sent = [e \in Ends |-> NoFrame]
    /\ cbCount = [e \in Ends |-> 0]
    /\ lastCb = [e \in Ends |-> NoCall]
    /\ wrote = [e \in Ends |-> <<>>]
    /\ nFrames = 0
    /\ lastRet = [e \in Ends |-> NONE]
    /\ crcSeen = [e \in Ends |-> NoCrc]
    /\ lastCall = [e \in Ends |-> NoRegCall]
    /\ before = [e \in Ends |-> <<>>]
    /\ unsubbed = [e \in Ends |-> {}]
    /\ now = 0
    /\ timer = [e \in Ends |-> NoTimer]
    /\ answered = <<>>
    /\ pubObs = [e \in Ends |-> NoPub]

Init == InitWith(0, MaxTopics)

\* ------------------------------------------------------------------------
\* Operations
\* ------------------------------------------------------------------------
Subscribe(e, topicId, callback) ==
    LET r == subscribe(erpc[e], topicId, callback)
    IN  /\ AtApp(e)
        /\ erpc' = [erpc EXCEPT ![e] = r.o]
        /\ unsubbed' = [unsubbed EXCEPT ![e] = IF r.ret THEN @ \ {topicId} ELSE @]
        /\ UNCHANGED <<link, stack, lastPublish, frameObs>>

Unsubscribe(e, topicId) ==
    LET r == unsubscribe(erpc[e], topicId)
    IN  /\ AtApp(e)
        /\ erpc' = [erpc EXCEPT ![e] = r.o]
        /\ unsubbed' = [unsubbed EXCEPT ![e] =
              IF r.ret /\ IsSubscribed(erpc[e], topicId) THEN @ \cup {topicId} ELSE @]
        /\ UNCHANGED <<link, stack, lastPublish, frameObs>>

\* observer of a registry call: what it returned and what held before it
Record(e, op, topicId, callback) ==
    /\ lastCall' = [lastCall EXCEPT ![e] =
          [op |-> op, topicId |-> topicId, callback |-> callback,
           ret |-> IF op = "subscribe"
                   THEN subscribe(erpc[e], topicId, callback).ret
                   ELSE unsubscribe(erpc[e], topicId).ret,
           subscribed |-> IsSubscribed(erpc[e], topicId),
           unsubscribed |-> topicId \in unsubbed[e],
           free |-> \E i \in DOMAIN erpc[e].topics_ : ~erpc[e].topics_[i].used]]
    /\ before' = [before EXCEPT ![e] = erpc[e].topics_]

\* publish() that resets the decoder and the acknowledgment flags whether or
\* not an acknowledgment is requested
Publish_ResetsAlways(e, topicId, data, requireAcknowledge) ==
    LET w == publishWrites([out |-> <<>>, crc |-> erpc[e].sendCrc16],
                           topicId, data, Len(data), requireAcknowledge)
        p == Peer(e)
    IN  /\ AtApp(e) \/ InCallback(e)
        /\ link' = [link EXCEPT ![p] = @ \o w.out]
        /\ IF requireAcknowledge
           THEN /\ erpc' = [erpc EXCEPT ![e] =
                      [@ EXCEPT !.sendCrc16 = w.crc,
                                !.receivedValidAck = FALSE,
                                !.receivedAckStatus = NO_ERROR,
                                !.currentState = IDLE]]
                /\ stack' = [stack EXCEPT ![e] = <<[fn |-> "wait", crcValid |-> FALSE]>> \o @]
                /\ UNCHANGED lastPublish
           ELSE /\ erpc' = [erpc EXCEPT ![e] =
                      [@ EXCEPT !.sendCrc16 = w.crc,
                                !.receivedValidAck = FALSE,
                                !.receivedAckStatus = NO_ERROR,
                                !.currentState = IDLE]]
                /\ lastPublish' = [lastPublish EXCEPT ![e] = NO_ERROR]
                /\ UNCHANGED stack
        /\ sent' = [sent EXCEPT ![p] =
              [topicId |-> topicId, data |-> data, ackReq |-> requireAcknowledge,
               idle |-> erpc[p].currentState = IDLE /\ AtApp(p) /\ link[p] = <<>>,
               cb |-> SubscribedCb(erpc[p], topicId),
               unsub |-> topicId \in unsubbed[p],
               intact |-> TRUE, isAck |-> FALSE]]
        /\ cbCount' = [cbCount EXCEPT ![p] = 0]
        /\ lastCb' = [lastCb EXCEPT ![p] = NoCall]
        /\ wrote' = [x \in Ends |-> <<>>]
        /\ nFrames' = nFrames + 1
        /\ lastRet' = [lastRet EXCEPT ![p] = NONE]
        /\ crcSeen' = [crcSeen EXCEPT ![p] = NoCrc]
        /\ UNCHANGED regObs

\* publish(), called by the sketch or by a callback: the frame goes to the
\* peer's link; with requireAcknowledge the caller enters waitForAcknowledge
\* (416-419) and stays there
Publish(e, topicId, data, requireAcknowledge) ==
    LET w == publishWrites([out |-> <<>>, crc |-> erpc[e].sendCrc16],
                           topicId, data, Len(data), requireAcknowledge)
        p == Peer(e)
    IN  /\ AtApp(e) \/ InCallback(e)
        /\ link' = [link EXCEPT ![p] = @ \o w.out]
        /\ IF requireAcknowledge
           THEN /\ erpc' = [erpc EXCEPT ![e] =
                      [@ EXCEPT !.sendCrc16 = w.crc,
                                !.receivedValidAck = FALSE,
                                !.receivedAckStatus = NO_ERROR,
                                !.currentState = IDLE]]
                /\ stack' = [stack EXCEPT ![e] = <<[fn |-> "wait", crcValid |-> FALSE]>> \o @]
                /\ UNCHANGED lastPublish
           ELSE /\ erpc' = [erpc EXCEPT ![e] = [@ EXCEPT !.sendCrc16 = w.crc]]
                /\ lastPublish' = [lastPublish EXCEPT ![e] = NO_ERROR]
                /\ UNCHANGED stack
        /\ sent' = [sent EXCEPT ![p] =
              [topicId |-> topicId, data |-> data, ackReq |-> requireAcknowledge,
               idle |-> erpc[p].currentState = IDLE /\ AtApp(p) /\ link[p] = <<>>,
               cb |-> SubscribedCb(erpc[p], topicId),
               unsub |-> topicId \in unsubbed[p],
               intact |-> TRUE, isAck |-> FALSE]]
        /\ cbCount' = [cbCount EXCEPT ![p] = 0]
        /\ lastCb' = [lastCb EXCEPT ![p] = NoCall]
        /\ wrote' = [x \in Ends |-> <<>>]
        /\ nFrames' = nFrames + 1
        /\ lastRet' = [lastRet EXCEPT ![p] = NONE]
        /\ crcSeen' = [crcSeen EXCEPT ![p] = NoCrc]
        /\ UNCHANGED regObs

\* waitForAcknowledge returns at its deadline test (423-424); time is not
\* measured here, the deadline may have passed at any iteration
WaitTimeout(e) ==
    /\ InWait(e)
    /\ stack' = [stack EXCEPT ![e] = Tail(@)]
    /\ lastPublish' = [lastPublish EXCEPT ![e] = ACK_TIMEOUT_ERROR]
    /\ UNCHANGED <<erpc, link, frameObs, regObs>>

\* waitForAcknowledge leaves its loop with receivedValidAck set (421, 428)
WaitAck(e) ==
    /\ InWait(e)
    /\ erpc[e].receivedValidAck
    /\ stack' = [stack EXCEPT ![e] = Tail(@)]
    /\ lastPublish' = [lastPublish EXCEPT ![e] = erpc[e].receivedAckStatus]
    /\ UNCHANGED <<erpc, link, frameObs, regObs>>

\* what a load from past the end of a block may yield
JunkBytes == {0, 5}

\* one iteration of loop(): serialByteRead, then stateHandle
LoopStep(e) ==
    /\ AtApp(e) \/ InWait(e) \/ InLoop(e)
    /\ ReadReady(link[e])
    /\ LET rd == serialByteRead(link[e])
           o == erpc[e]
       IN  \E zeroIsNull \in IF o.currentState = RECEIVING_LENGTH /\ rd.byte = 0
                             THEN BOOLEAN ELSE {TRUE},
              junk \in IF o.currentState = RECEIVING_CRC /\ o.receivedData.bytes = <<>>
                       THEN JunkBytes ELSE {0} :
             LET r == stateHandle(o, rd.byte, zeroIsNull, junk)
             IN  /\ erpc' = [erpc EXCEPT ![e] = r.o]
                 /\ link' = [link EXCEPT ![e] = rd.rest, ![Peer(e)] = @ \o r.out]
                 /\ wrote' = [wrote EXCEPT ![e] = @ \o r.out]
                 /\ IF r.call # NULL
                    THEN /\ stack' = [stack EXCEPT ![e] =
                               <<[fn |-> IF r.call = WILD THEN "wild" ELSE "callback",
                                  crcValid |-> r.crcValid]>> \o @]
                         /\ cbCount' = [cbCount EXCEPT ![e] = @ + 1]
                         /\ lastCb' = [lastCb EXCEPT ![e] =
                               [cb |-> r.call,
                                topicId |-> r.o.currentTopicId,
                                data |-> r.o.receivedData.bytes,
                                length |-> r.o.receivedDataLength,
                                status |-> r.o.rxStatus]]
                    ELSE UNCHANGED <<stack, cbCount, lastCb>>
                 /\ crcSeen' = [crcSeen EXCEPT ![e] =
                       IF o.currentState = RECEIVING_CRC /\ o.receivedFirstCrcByte
                       THEN [done |-> TRUE, valid |-> r.crcValid,
                             isAck |-> InfoIsAck(o.receivedFrameInfo),
                             ackReq |-> InfoAckReq(o.receivedFrameInfo),
                             cb |-> SubscribedCb(o, o.currentTopicId),
                             length |-> o.receivedDataLength,
                             cbBefore |-> cbCount[e],
                             wroteBefore |-> wrote[e],
                             validAckBefore |-> o.receivedValidAck,
                             ackStatusBefore |-> o.receivedAckStatus]
                       ELSE @]
    /\ UNCHANGED <<lastPublish, sent, nFrames, lastRet, regObs>>

\* the callback returns ret: topicCallback stores it in rxStatus and
\* StateHandleReceivingCrc goes on (396-399, 406)
CallbackReturn(e, ret) ==
    /\ InCallback(e)
    /\ LET r == FinishCrc([erpc[e] EXCEPT !.rxStatus = ret], Head(stack[e]).crcValid)
       IN  /\ erpc' = [erpc EXCEPT ![e] = r.o]
           /\ link' = [link EXCEPT ![Peer(e)] = @ \o r.out]
           /\ wrote' = [wrote EXCEPT ![e] = @ \o r.out]
    /\ stack' = [stack EXCEPT ![e] = Tail(@)]
    /\ lastRet' = [lastRet EXCEPT ![e] = ret]
    /\ UNCHANGED <<lastPublish, sent, cbCount, lastCb, nFrames, crcSeen, regObs>>

\* line noise: raw byte i on its way to e arrives as v
Corrupt(e, i, v) ==
    /\ i \in 1 .. Len(link[e])
    /\ link[e][i] # v
    /\ link' = [link EXCEPT ![e][i] = v]
    /\ sent' = [sent EXCEPT ![e].intact = FALSE]
    /\ UNCHANGED <<erpc, stack, lastPublish, cbCount, lastCb, wrote, nFrames, lastRet,
                   crcSeen, regObs>>

\* ------------------------------------------------------------------------
\* waitForAcknowledge against the clock.  A byte written is available to its
\* reader at once.  timer[e].pc is the place of e's waitForAcknowledge: "while"
\* at the test of its loop (421), "deadline" from the call of loop() (422) to
\* the test of the deadline (423), "none" outside.  elapsed counts the clock's
\* periods since startTime was read and stops counting at ClockMod.
\* ------------------------------------------------------------------------
Waiting(e) == timer[e].pc # "none"

\* publish() with its timeoutMs; waitForAcknowledge reads startTime (416)
PublishT(e, topicId, data, requireAcknowledge, timeoutMs) ==
    /\ Publish(e, topicId, data, requireAcknowledge)
    /\ timer' = [timer EXCEPT ![e] =
          IF requireAcknowledge
          THEN [NoTimer EXCEPT !.pc = "while", !.startTime = now,
                               !.timeoutMs = timeoutMs]
          ELSE @]
    /\ UNCHANGED <<now, answered, pubObs>>

\* the test of the while loop (421): leave with receivedAckStatus (428), or
\* call loop() (422)
WaitWhile(e) ==
    /\ InWait(e) /\ timer[e].pc = "while"
    /\ IF erpc[e].receivedValidAck
       THEN /\ stack' = [stack EXCEPT ![e] = Tail(@)]
            /\ lastPublish' = [lastPublish EXCEPT ![e] = erpc[e].receivedAckStatus]
            /\ timer' = [timer EXCEPT ![e].pc = "none", ![e].atReturn = timer[e].elapsed]
       ELSE /\ stack' = [stack EXCEPT ![e] = <<[fn |-> "loop", crcValid |-> FALSE]>> \o @]
            /\ timer' = [timer EXCEPT ![e].pc = "deadline"]
            /\ UNCHANGED lastPublish
    /\ UNCHANGED <<erpc, link, frameObs, regObs, now, answered, pubObs>>

\* the sketch calls loop() (OneWayRx.ino, 42)
LoopCall(e) ==
    /\ AtApp(e)
    /\ stack' = [stack EXCEPT ![e] = <<[fn |-> "loop", crcValid |-> FALSE]>> \o @]
    /\ UNCHANGED <<erpc, link, lastPublish, frameObs, regObs, timeVars>>

\* loop() finds serial->available() false (25) and returns
LoopReturn(e) ==
    /\ InLoop(e)
    /\ link[e] = <<>>
    /\ stack' = [stack EXCEPT ![e] = Tail(@)]
    /\ UNCHANGED <<erpc, link, lastPublish, frameObs, regObs, timeVars>>

\* one iteration of loop() by an endpoint that may be waiting: the observers
\* of the wait note a valid acknowledgment frame
LoopStepT(e) ==
    /\ LoopStep(e)
    /\ timer' = [timer EXCEPT ![e] =
          IF Waiting(e) /\ ~erpc[e].receivedValidAck /\ erpc'[e].receivedValidAck
          THEN [@ EXCEPT !.decoded = TRUE, !.decodedAt = timer[e].elapsed,
                         !.status = erpc'[e].receivedAckStatus]
          ELSE @]
    /\ UNCHANGED <<now, answered, pubObs>>

\* millis() - startTime in unsigned arithmetic
Elapsed(e) == (now + ClockMod - timer[e].startTime) % ClockMod

\* the deadline test that returns too early by one period
WaitDeadline_Early(e) ==
    /\ InWait(e) /\ timer[e].pc = "deadline"
    /\ IF Elapsed(e) + 1 >= timer[e].timeoutMs
       THEN /\ stack' = [stack EXCEPT ![e] = Tail(@)]
            /\ lastPublish' = [lastPublish EXCEPT ![e] = ACK_TIMEOUT_ERROR]
            /\ timer' = [timer EXCEPT ![e].pc = "none", ![e].atReturn = timer[e].elapsed]
       ELSE /\ timer' = [timer EXCEPT ![e].pc = "while", ![e].polled = TRUE]
            /\ UNCHANGED <<stack, lastPublish>>
    /\ UNCHANGED <<erpc, link, frameObs, regObs, now, answered, pubObs>>

\* the deadline test (423-426): return ACK_TIMEOUT_ERROR, or delay and go to
\* the test of the loop
WaitDeadline(e) ==
    /\ InWait(e) /\ timer[e].pc = "deadline"
    /\ IF Elapsed(e) >= timer[e].timeoutMs
       THEN /\ stack' = [stack EXCEPT ![e] = Tail(@)]
            /\ lastPublish' = [lastPublish EXCEPT ![e] = ACK_TIMEOUT_ERROR]
            /\ timer' = [timer EXCEPT ![e].pc = "none", ![e].atReturn = timer[e].elapsed]
       ELSE /\ timer' = [timer EXCEPT ![e].pc = "while", ![e].polled = TRUE]
            /\ UNCHANGED <<stack, lastPublish>>
    /\ UNCHANGED <<erpc, link, frameObs, regObs, now, answered, pubObs>>

\* e goes round its wait loop with nothing to read and no callback running:
\* one round takes the 100 microseconds of line 426
IdleWait(e) ==
    /\ Waiting(e)
    /\ link[e] = <<>>
    /\ InWait(e) \/ InLoop(e)

\* the millisecond clock advances by one; a waiting endpoint with nothing to
\* read tests its deadline at least once per period
Tick ==
    /\ \A e \in Ends : IdleWait(e) => timer[e].polled
    /\ now' = (now + 1) % ClockMod
    /\ timer' = [e \in Ends |->
          IF Waiting(e)
          THEN [timer[e] EXCEPT !.elapsed = IF @ < ClockMod THEN @ + 1 ELSE @,
                                !.polled = FALSE]
          ELSE timer[e]]
    /\ UNCHANGED <<erpc, link, stack, lastPublish, frameObs, regObs, answered, pubObs>>

\* ------------------------------------------------------------------------
\* One-way traffic: Tx publishes, Rx subscribes and polls (the OneWayTx and
\* OneWayRx sketches).  A frame is published when the previous one has been
\* consumed; the application of Rx changes its subscriptions between frames.
\* ------------------------------------------------------------------------
PubTopics == {0, 5}
SubTopics == {5}
Payloads == {<<>>, <<1>>, <<1, 2, 3>>, <<126, 127>>}
RetVals == {NO_ERROR, PROCESSING_ERROR}

Quiet(e) == link[e] = <<>> /\ AtApp(e)
\* the clock is not read and the calls are not observed
Untimed == UNCHANGED timeVars

Next ==
    \/ \E t \in SubTopics, cb \in Callbacks :
          Quiet(Rx) /\ Subscribe(Rx, t, cb) /\ UNCHANGED callObs /\ Untimed
    \/ \E t \in SubTopics :
          Quiet(Rx) /\ Unsubscribe(Rx, t) /\ UNCHANGED callObs /\ Untimed
    \/ \E t \in PubTopics, d \in Payloads, a \in BOOLEAN :
          Quiet(Rx) /\ Quiet(Tx) /\ nFrames < MaxFrames /\ Publish(Tx, t, d, a) /\ Untimed
    \/ \E e \in Ends : LoopStep(e) /\ Untimed
    \/ \E e \in Ends, ret \in RetVals : CallbackReturn(e, ret) /\ Untimed
    \/ WaitTimeout(Tx) /\ Untimed
    \/ WaitAck(Tx) /\ Untimed

Spec == Init /\ [][Next]_vars

\* ------------------------------------------------------------------------
\* Escaping: payloads made of marker values, payloads whose checksum holds a
\* marker value, and payloads of 126 and 127 bytes (the length byte is a marker)
\* ------------------------------------------------------------------------
LongMarkers == [i \in 1 .. 126 |-> IF i % 2 = 1 THEN FRAME_START ELSE ESCAPE_CHARACTER]
LongPlain == [i \in 1 .. 127 |-> 1]
EscPayloads ==
    {<<126>>, <<127>>, <<127, 126, 127>>, <<57>>, <<90>>, <<98>>, LongMarkers, LongPlain}

EscNext ==
    \/ Quiet(Rx) /\ Subscribe(Rx, 5, "cbA") /\ UNCHANGED callObs /\ Untimed
    \/ \E d \in EscPayloads, a \in BOOLEAN :
          Quiet(Rx) /\ Quiet(Tx) /\ nFrames < MaxFrames /\ Publish(Tx, 5, d, a) /\ Untimed
    \/ \E e \in Ends : LoopStep(e) /\ Untimed
    \/ \E e \in Ends : CallbackReturn(e, NO_ERROR) /\ Untimed
    \/ WaitTimeout(Tx) /\ Untimed
    \/ WaitAck(Tx) /\ Untimed

SpecEscape == Init /\ [][EscNext]_vars

\* ------------------------------------------------------------------------
\* Line noise: one raw byte of a frame, after its start marker, is replaced
\* before the receiver has read any of the frame
\* ------------------------------------------------------------------------
NoisePayloads == {<<1>>, <<1, 2, 3>>}
NoiseVals == {0, 1}

Untouched(e) ==
    /\ sent[e].intact
    /\ erpc[e].currentState = IDLE
    /\ link[e] # <<>> /\ Head(link[e]) = FRAME_START

NoiseNext ==
    \/ \E cb \in Callbacks : Quiet(Rx) /\ Subscribe(Rx, 5, cb) /\ UNCHANGED callObs /\ Untimed
    \/ Quiet(Rx) /\ Unsubscribe(Rx, 5) /\ UNCHANGED callObs /\ Untimed
    \/ \E d \in NoisePayloads, a \in BOOLEAN :
          Quiet(Rx) /\ Quiet(Tx) /\ nFrames < MaxFrames /\ Publish(Tx, 5, d, a) /\ Untimed
    \/ \E i \in 2 .. Len(link[Rx]), v \in NoiseVals : Untouched(Rx) /\ Corrupt(Rx, i, v) /\ Untimed
    \/ \E e \in Ends : LoopStep(e) /\ Untimed
    \/ \E e \in Ends, ret \in RetVals : CallbackReturn(e, ret) /\ Untimed
    \/ WaitTimeout(Tx) /\ Untimed
    \/ WaitAck(Tx) /\ Untimed

SpecNoise == Init /\ [][NoiseNext]_vars

\* ------------------------------------------------------------------------
\* Line noise on the way back: one raw byte of the acknowledgment frame is
\* replaced before the publisher has read any of it
\* ------------------------------------------------------------------------
AckNoiseVals == {0, 1, 127}

\* the bytes the peer of e wrote are all on their way to e, as written
AckUntouched(e) == link[e] # <<>> /\ link[e] = wrote[Peer(e)]

AckNoiseNext ==
    \/ \E cb \in Callbacks : Quiet(Rx) /\ Subscribe(Rx, 5, cb) /\ UNCHANGED callObs /\ Untimed
    \/ \E d \in NoisePayloads :
          Quiet(Rx) /\ Quiet(Tx) /\ nFrames < MaxFrames /\ Publish(Tx, 5, d, TRUE) /\ Untimed
    \/ \E i \in 1 .. Len(link[Tx]), v \in AckNoiseVals :
          AckUntouched(Tx) /\ Corrupt(Tx, i, v) /\ Untimed
    \/ \E e \in Ends : LoopStep(e) /\ Untimed
    \/ \E e \in Ends, ret \in RetVals : CallbackReturn(e, ret) /\ Untimed
    \/ WaitTimeout(Tx) /\ Untimed
    \/ WaitAck(Tx) /\ Untimed

SpecAckNoise == Init /\ [][AckNoiseNext]_vars

\* ------------------------------------------------------------------------
\* Frames on an id nobody subscribed: Rx subscribes 5, Tx publishes on 7;
\* among the payloads, two that hold the bytes of a frame on id 5: one with a
\* wrong checksum, one that requests acknowledgment and has the right checksum
\* ------------------------------------------------------------------------
Embedded == <<126, 5, 1, 9, 0, 0>>
EmbeddedValid == <<126, 133, 1, 9, 114, 178>>
StrayPayloads == {<<1>>, <<127>>, <<1, 2, 3>>, Embedded, EmbeddedValid}

StrayNext ==
    \/ \E cb \in Callbacks : Quiet(Rx) /\ Subscribe(Rx, 5, cb) /\ UNCHANGED callObs /\ Untimed
    \/ \E d \in StrayPayloads, a \in BOOLEAN :
          Quiet(Rx) /\ Quiet(Tx) /\ nFrames < MaxFrames /\ Publish(Tx, 7, d, a) /\ Untimed
    \/ \E e \in Ends : LoopStep(e) /\ Untimed
    \/ \E e \in Ends, ret \in RetVals : CallbackReturn(e, ret) /\ Untimed
    \/ WaitTimeout(Tx) /\ Untimed
    \/ WaitAck(Tx) /\ Untimed

SpecStray == Init /\ [][StrayNext]_vars

\* ------------------------------------------------------------------------
\* Acknowledged publishes against the clock: Rx subscribes 5 and polls, Tx
\* publishes with acknowledgment requested and a timeout
\* ------------------------------------------------------------------------
Timeouts == 0 .. MaxTimeout

TimedNext ==
    \/ Quiet(Rx) /\ Subscribe(Rx, 5, "cbA") /\ UNCHANGED callObs /\ Untimed
    \/ \E tm \in Timeouts :
          Quiet(Rx) /\ Quiet(Tx) /\ nFrames < MaxFrames /\ PublishT(Tx, 5, <<1>>, TRUE, tm)
    \/ AtApp(Rx) /\ LoopStepT(Rx)
    \/ InLoop(Tx) /\ LoopStepT(Tx)
    \/ \E ret \in RetVals : CallbackReturn(Rx, ret) /\ Untimed
    \/ WaitWhile(Tx)
    \/ LoopReturn(Tx)
    \/ WaitDeadline(Tx)
    \/ Tick

SpecTimed == Init /\ [][TimedNext]_vars

\* one such publish, with line noise that puts an escape marker on the way
\* back; Tx and the clock go on whenever they can
TxWait == WaitWhile(Tx) \/ LoopReturn(Tx) \/ WaitDeadline(Tx)
TxRead == InLoop(Tx) /\ LoopStepT(Tx)
TxCanRead == InLoop(Tx) /\ ReadReady(link[Tx])

WaitNext ==
    \/ Quiet(Rx) /\ Subscribe(Rx, 5, "cbA") /\ UNCHANGED callObs /\ Untimed
    \/ \E tm \in Timeouts :
          Quiet(Rx) /\ Quiet(Tx) /\ nFrames = 0 /\ PublishT(Tx, 5, <<1>>, TRUE, tm)
    \/ AtApp(Rx) /\ LoopStepT(Rx)
    \/ TxRead
    \/ CallbackReturn(Rx, NO_ERROR) /\ Untimed
    \/ TxWait
    \/ \E i \in 1 .. Len(link[Tx]) :
          AckUntouched(Tx) /\ Corrupt(Tx, i, ESCAPE_CHARACTER) /\ Untimed
    \/ Tick

SpecWait ==
    /\ Init /\ [][WaitNext]_vars
    /\ WF_vars(Tick) /\ WF_vars(TxWait)
    /\ ([]<>(~TxCanRead) \/ []<><<TxRead>>_vars)

\* ------------------------------------------------------------------------
\* Publishes one after another: Tx publishes with acknowledgment requested as
\* soon as the previous publish() has returned, whether or not Rx has served
\* the previous frame.  The k-th publish carries the payload <<k>>;
\* answered[k] is what the callback of Rx returned for it, NONE before that.
\* ------------------------------------------------------------------------
PublishSeq(e, timeoutMs) ==
    /\ Publish(e, 5, <<nFrames + 1>>, TRUE)
    /\ timer' = [timer EXCEPT ![e] =
          [NoTimer EXCEPT !.pc = "while", !.startTime = now, !.timeoutMs = timeoutMs]]
    /\ answered' = Append(answered, NONE)
    /\ UNCHANGED <<now, pubObs>>

\* the callback returns ret for the frame whose payload it was given
CallbackReturnSeq(e, ret) ==
    /\ CallbackReturn(e, ret)
    /\ answered' = [answered EXCEPT ![erpc[e].receivedData.bytes[1]] = ret]
    /\ UNCHANGED <<now, timer, pubObs>>

SeqNext ==
    \/ Quiet(Rx) /\ Subscribe(Rx, 5, "cbA") /\ UNCHANGED callObs /\ Untimed
    \/ \E tm \in Timeouts :
          /\ AtApp(Tx) /\ nFrames < MaxPublishes
          /\ IsSubscribed(erpc[Rx], 5)
          /\ PublishSeq(Tx, tm)
    \/ AtApp(Rx) /\ LoopStepT(Rx)
    \/ InLoop(Tx) /\ LoopStepT(Tx)
    \/ \E ret \in RetVals : CallbackReturnSeq(Rx, ret)
    \/ WaitWhile(Tx)
    \/ LoopReturn(Tx)
    \/ WaitDeadline(Tx)
    \/ Tick

SpecSeq == Init /\ [][SeqNext]_vars

\* ------------------------------------------------------------------------
\* Two-way traffic: both endpoints have a slot, subscribe 5, poll, and publish
\* once each, with or without acknowledgment, at any moment their application
\* runs.  pubObs[e] holds the object and the inbound bytes of e before and
\* after its publish() wrote the frame, and whether the peer was inside
\* waitForAcknowledge at that moment.  The clock is seen to advance where it
\* is read: at a deadline test.
\* ------------------------------------------------------------------------
MutualPayloads == {<<>>, <<1>>}

InitMutual == InitWith(1, 1)

PublishObs(e, topicId, data, requireAcknowledge, timeoutMs) ==
    /\ Publish(e, topicId, data, requireAcknowledge)
    /\ timer' = [timer EXCEPT ![e] =
          IF requireAcknowledge
          THEN [NoTimer EXCEPT !.pc = "while", !.startTime = now,
                               !.timeoutMs = timeoutMs]
          ELSE @]
    /\ pubObs' = [pubObs EXCEPT ![e] =
          [done |-> TRUE, ackReq |-> requireAcknowledge,
           before |-> erpc[e],
           after |-> erpc'[e],
           linkBefore |-> link[e], linkAfter |-> link'[e],
           peerWaiting |-> Waiting(Peer(e)),
           written |-> SubSeq(link'[Peer(e)], Len(link[Peer(e)]) + 1,
                              Len(link'[Peer(e)]))]]
    /\ UNCHANGED <<now, answered>>

MutualNext ==
    \/ \E e \in Ends :
          /\ Quiet(e) /\ ~pubObs[Tx].done /\ ~pubObs[Rx].done
          /\ Subscribe(e, 5, "cbA") /\ UNCHANGED callObs /\ Untimed
    \/ \E e \in Ends, d \in MutualPayloads, a \in BOOLEAN :
          /\ AtApp(e) /\ ~pubObs[e].done
          /\ \A x \in Ends : IsSubscribed(erpc[x], 5)
          /\ PublishObs(e, 5, d, a, 1)
    \/ \E e \in Ends : (AtApp(e) \/ InLoop(e)) /\ LoopStepT(e)
    \/ \E e \in Ends, ret \in RetVals : CallbackReturn(e, ret) /\ Untimed
    \/ \E e \in Ends : WaitWhile(e)
    \/ \E e \in Ends : LoopReturn(e)
    \/ \E e \in Ends : WaitDeadline(e)
    \/ (\E e \in Ends : InWait(e) /\ timer[e].pc = "deadline") /\ Tick

SpecMutual == InitMutual /\ [][MutualNext]_vars

\* ------------------------------------------------------------------------
\* Polling: any bytes, MaxAvail of them in all, arrive at Rx between the
\* calls of loop() by its sketch, and none arrives while loop() runs
\* ------------------------------------------------------------------------
PollBytes == {1, 5, FRAME_START, ESCAPE_CHARACTER}

\* a byte arrives while the sketch of e runs, MaxAvail of them in all;
\* sent[e].data keeps the bytes that have arrived
Arrive(e, byte) ==
    /\ AtApp(e)
    /\ Len(sent[e].data) < MaxAvail
    /\ link' = [link EXCEPT ![e] = Append(@, byte)]
    /\ sent' = [sent EXCEPT ![e] = [@ EXCEPT !.data = Append(@, byte), !.intact = FALSE]]
    /\ UNCHANGED <<erpc, stack, lastPublish, cbCount, lastCb, wrote, nFrames, lastRet,
                   crcSeen, regObs, timeVars>>

PollNext ==
    \/ Quiet(Rx) /\ Subscribe(Rx, 5, "cbA") /\ UNCHANGED callObs /\ Untimed
    \/ \E b \in PollBytes : Arrive(Rx, b)
    \/ LoopCall(Rx)
    \/ InLoop(Rx) /\ LoopStep(Rx) /\ Untimed
    \/ \E ret \in RetVals : CallbackReturn(Rx, ret) /\ Untimed
    \/ LoopReturn(Rx)

SpecPoll == Init /\ [][PollNext]_vars

\* ------------------------------------------------------------------------
\* Publishing while receiving: Tx has a slot, subscribes 1 and polls while
\* bytes arrive, and publishes once, no acknowledgment requested, at any
\* moment its sketch runs
\* ------------------------------------------------------------------------
InboundBytes == {1, FRAME_START}
OutPayloads == {<<>>, <<126, 127>>}

InitSend == InitWith(1, 0)

SendNext ==
    \/ Quiet(Tx) /\ Subscribe(Tx, 1, "cbA") /\ UNCHANGED callObs /\ Untimed
    \/ \E b \in InboundBytes : Arrive(Tx, b)
    \/ AtApp(Tx) /\ LoopStep(Tx) /\ Untimed
    \/ \E ret \in RetVals : CallbackReturn(Tx, ret) /\ Untimed
    \/ \E d \in OutPayloads :
          AtApp(Tx) /\ ~pubObs[Tx].done /\ PublishObs(Tx, 1, d, FALSE, 0)

SpecSend == InitSend /\ [][SendNext]_vars

\* ------------------------------------------------------------------------
\* Bit errors: one bit of one raw byte of the INFO, LENGTH or DATA region of
\* a frame is inverted before the receiver has read any of the frame
\* ------------------------------------------------------------------------
FlipPayloads == {<<1>>, <<1, 2, 3>>, <<255>>}

FlipBit(byte, k) == IF Bit(byte, k) = 1 THEN byte - Pow2(k) ELSE byte + Pow2(k)

\* the raw position of the last byte before the checksum in the frame f
RegionEnd(f) ==
    Len(sendData(sendFrameLength(
            sendFrameInfo(sendFrameStart([out |-> <<>>, crc |-> CrcReset]),
                          f.ackReq, f.topicId),
            Len(f.data)), f.data, Len(f.data)).out)

FlipNext ==
    \/ Quiet(Rx) /\ Subscribe(Rx, 5, "cbA") /\ UNCHANGED callObs /\ Untimed
    \/ \E d \in FlipPayloads, a \in BOOLEAN :
          Quiet(Rx) /\ Quiet(Tx) /\ nFrames < MaxFrames /\ Publish(Tx, 5, d, a) /\ Untimed
    \/ \E i \in 2 .. RegionEnd(sent[Rx]), k \in 0 .. 7 :
          Untouched(Rx) /\ Corrupt(Rx, i, FlipBit(link[Rx][i], k)) /\ Untimed
    \/ \E e \in Ends : LoopStep(e) /\ Untimed
    \/ \E e \in Ends, ret \in RetVals : CallbackReturn(e, ret) /\ Untimed
    \/ WaitTimeout(Tx) /\ Untimed
    \/ WaitAck(Tx) /\ Untimed

SpecFlip == Init /\ [][FlipNext]_vars

\* ------------------------------------------------------------------------
\* The bytes on the wire: Tx publishes one frame on 5 to the subscribed Rx,
\* with the payloads of the escaping section; Rx answers the frames that ask
\* for it.  pubObs[Tx].written is the published frame as written, wrote[Rx]
\* the acknowledgment frame as written.
\* ------------------------------------------------------------------------
WireNext ==
    \/ Quiet(Rx) /\ Subscribe(Rx, 5, "cbA") /\ UNCHANGED callObs /\ Untimed
    \/ \E d \in EscPayloads, a \in BOOLEAN :
          /\ Quiet(Rx) /\ Quiet(Tx) /\ ~pubObs[Tx].done
          /\ IsSubscribed(erpc[Rx], 5)
          /\ PublishObs(Tx, 5, d, a, 1)
    \/ AtApp(Rx) /\ LoopStepT(Rx)
    \/ InLoop(Tx) /\ LoopStepT(Tx)
    \/ \E ret \in RetVals : CallbackReturn(Rx, ret) /\ Untimed
    \/ WaitWhile(Tx)
    \/ LoopReturn(Tx)
    \/ WaitDeadline(Tx)
    \/ InWait(Tx) /\ timer[Tx].pc = "deadline" /\ Tick

InitWire == InitWith(0, 1)

SpecWire == InitWire /\ [][WireNext]_vars

\* ------------------------------------------------------------------------
\* Frames from anywhere: data frames on 5, and frames with the
\* acknowledgment bit set, any topic field, acknowledgment-requested bit,
\* length and checksum, arrive at the subscribed, polling Rx
\* ------------------------------------------------------------------------
AckInfos == {InfoByte(t, TRUE, a) : t \in {5, ACK_TOPIC}, a \in BOOLEAN}
AckDatas == {<<>>, <<0>>, <<5>>, <<1, 126>>}
DataInfos == {InfoByte(5, FALSE, a) : a \in BOOLEAN}

\* the bytes of a frame with the INFO byte info, written as the encoder
\* writes them, with the right checksum or another one
FrameWire(info, data, crcRight) ==
    LET w1 == serialByteWrite(sendFrameStart([out |-> <<>>, crc |-> CrcReset]),
                              info, TRUE, TRUE)
        w2 == sendData(sendFrameLength(w1, Len(data)), data, Len(data))
    IN  sendCrc(IF crcRight THEN w2 ELSE [w2 EXCEPT !.crc = (@ + 1) % 65536]).out

\* a frame arrives at e from a sender that is not modelled
Inject(e, info, data, crcRight) ==
    /\ link' = [link EXCEPT ![e] = @ \o FrameWire(info, data, crcRight)]
    /\ sent' = [sent EXCEPT ![e] =
          [topicId |-> InfoTopicId(info), data |-> data, ackReq |-> InfoAckReq(info),
           idle |-> erpc[e].currentState = IDLE /\ AtApp(e) /\ link[e] = <<>>,
           cb |-> SubscribedCb(erpc[e], InfoTopicId(info)),
           unsub |-> InfoTopicId(info) \in unsubbed[e],
           intact |-> crcRight, isAck |-> InfoIsAck(info)]]
    /\ cbCount' = [cbCount EXCEPT ![e] = 0]
    /\ lastCb' = [lastCb EXCEPT ![e] = NoCall]
    /\ wrote' = [x \in Ends |-> <<>>]
    /\ nFrames' = nFrames + 1
    /\ lastRet' = [lastRet EXCEPT ![e] = NONE]
    /\ crcSeen' = [crcSeen EXCEPT ![e] = NoCrc]
    /\ UNCHANGED <<erpc, stack, lastPublish, regObs, timeVars>>

AckInNext ==
    \/ \E cb \in Callbacks : Quiet(Rx) /\ Subscribe(Rx, 5, cb) /\ UNCHANGED callObs /\ Untimed
    \/ \E info \in AckInfos \cup DataInfos, d \in AckDatas, ok \in BOOLEAN :
          Quiet(Rx) /\ nFrames < MaxFrames /\ Inject(Rx, info, d, ok)
    \/ LoopCall(Rx)
    \/ InLoop(Rx) /\ LoopStep(Rx) /\ Untimed
    \/ \E ret \in RetVals : CallbackReturn(Rx, ret) /\ Untimed
    \/ LoopReturn(Rx)

SpecAckIn == Init /\ [][AckInNext]_vars

\* ------------------------------------------------------------------------
\* Resynchronisation: the first raw bytes of a data frame on 5, cut off at any
\* point after the start marker, arrive at the subscribed, polling Rx; a
\* complete valid data frame on 5 follows
\* ------------------------------------------------------------------------
CutDatas == {<<1>>, <<1, 2, 3>>, <<127>>}
WholeDatas == {<<9>>, <<1, 2, 3>>}

\* the first n raw bytes of a frame arrive at e, and no more of it
Cut(e, info, data, n) ==
    /\ n \in 1 .. Len(FrameWire(info, data, TRUE)) - 1
    /\ link' = [link EXCEPT ![e] = @ \o SubSeq(FrameWire(info, data, TRUE), 1, n)]
    /\ sent' = [sent EXCEPT ![e] =
          [topicId |-> InfoTopicId(info), data |-> data, ackReq |-> InfoAckReq(info),
           idle |-> erpc[e].currentState = IDLE /\ AtApp(e) /\ link[e] = <<>>,
           cb |-> SubscribedCb(erpc[e], InfoTopicId(info)),
           unsub |-> InfoTopicId(info) \in unsubbed[e],
           intact |-> FALSE, isAck |-> InfoIsAck(info)]]
    /\ nFrames' = nFrames + 1
    /\ UNCHANGED <<erpc, stack, lastPublish, cbCount, lastCb, wrote, lastRet, crcSeen,
                   regObs, timeVars>>

ResyncNext ==
    \/ Quiet(Rx) /\ nFrames = 0 /\ Subscribe(Rx, 5, "cbA") /\ UNCHANGED callObs /\ Untimed
    \/ \E info \in DataInfos, d \in CutDatas, n \in 1 .. 8 :
          /\ Quiet(Rx) /\ nFrames = 0 /\ erpc[Rx].currentState = IDLE
          /\ IsSubscribed(erpc[Rx], 5)
          /\ Cut(Rx, info, d, n)
    \/ \E info \in DataInfos, d \in WholeDatas :
          AtApp(Rx) /\ nFrames = 1 /\ Inject(Rx, info, d, TRUE)
    \/ AtApp(Rx) /\ LoopStep(Rx) /\ Untimed
    \/ \E ret \in RetVals : CallbackReturn(Rx, ret) /\ Untimed

SpecResync == Init /\ [][ResyncNext]_vars

\* ------------------------------------------------------------------------
\* A callback that publishes: both endpoints have a slot and subscribe 5; Tx
\* publishes a frame, and the callback Rx runs for it publishes a frame of
\* its own with acknowledgment requested before it returns.  The clock is
\* seen to advance where it is read: at a deadline test.
\* ------------------------------------------------------------------------
NestedPayloads == {<<3>>, <<3, 4>>}

NestedNext ==
    \/ \E e \in Ends :
          /\ Quiet(e) /\ ~pubObs[Tx].done
          /\ Subscribe(e, 5, "cbA") /\ UNCHANGED callObs /\ Untimed
    \/ \E a \in BOOLEAN :
          /\ Quiet(Tx) /\ Quiet(Rx) /\ ~pubObs[Tx].done
          /\ \A x \in Ends : IsSubscribed(erpc[x], 5)
          /\ PublishObs(Tx, 5, <<7>>, a, 1)
    \/ \E d \in NestedPayloads :
          /\ InCallback(Rx) /\ ~pubObs[Rx].done
          /\ PublishObs(Rx, 5, d, TRUE, 1)
    \/ \E e \in Ends : (AtApp(e) \/ InLoop(e)) /\ LoopStepT(e)
    \/ \E e \in Ends, ret \in RetVals : CallbackReturn(e, ret) /\ Untimed
    \/ \E e \in Ends : WaitWhile(e)
    \/ \E e \in Ends : LoopReturn(e)
    \/ \E e \in Ends : WaitDeadline(e)
    \/ (\E e \in Ends : InWait(e) /\ timer[e].pc = "deadline") /\ Tick

SpecNested == InitMutual /\ [][NestedNext]_vars

\* ------------------------------------------------------------------------
\* The registry alone: any sequence of subscribe/unsubscribe calls on Rx
\* ------------------------------------------------------------------------
RegTopics == {0, 5, 62, 63}

RegNext ==
    \/ \E t \in RegTopics, cb \in Callbacks :
          Subscribe(Rx, t, cb) /\ Record(Rx, "subscribe", t, cb) /\ Untimed
    \/ \E t \in RegTopics :
          Unsubscribe(Rx, t) /\ Record(Rx, "unsubscribe", t, NULL) /\ Untimed

SpecRegistry == Init /\ [][RegNext]_vars

\* ------------------------------------------------------------------------
\* Registry claims
\* ------------------------------------------------------------------------
AllUsed(slots) == \A i \in DOMAIN slots : slots[i].used
DistinctIds(slots) ==
    \A i, j \in DOMAIN slots :
        i # j /\ slots[i].used /\ slots[j].used => slots[i].topicId # slots[j].topicId

\* C3: subscribe(t) on an id that is subscribed returns false, and subscribe(t)
\* after a successful unsubscribe(t) of a subscribed id, with a slot free,
\* returns true.
C3_RegistryUniqueness ==
    LET c == lastCall[Rx]
    IN  /\ (c.op = "subscribe" /\ c.subscribed => ~c.ret)
        /\ (c.op = "subscribe" /\ c.unsubscribed /\ c.free /\ c.topicId <= MAX_TOPIC_ID
              => c.ret)

\* C5: unsubscribe(t) with no occupied slot holding t returns false and leaves
\* the slots as they were; stated for the case the claim singles out, an
\* unsubscribe(t) that follows a successful unsubscribe(t) with no subscribe(t)
\* between them.
C5_UnsubscribeAbsent ==
    LET c == lastCall[Rx]
    IN  c.op = "unsubscribe" /\ ~c.subscribed /\ c.unsubscribed
          => ~c.ret /\ erpc[Rx].topics_ = before[Rx]

\* C6: with every one of the N slots occupied by distinct ids, subscribe on a
\* new id in 0..62 returns false and leaves every slot as it was.
C6_CapacityBound ==
    LET c == lastCall[Rx]
    IN  c.op = "subscribe" /\ AllUsed(before[Rx]) /\ DistinctIds(before[Rx])
            /\ c.topicId <= MAX_TOPIC_ID /\ ~c.subscribed
          => ~c.ret /\ erpc[Rx].topics_ = before[Rx]

C6_Witness ==
    LET c == lastCall[Rx]
    IN  /\ c.op = "subscribe" /\ c.topicId <= MAX_TOPIC_ID /\ ~c.subscribed
        /\ Cardinality(DOMAIN before[Rx]) = MaxTopics
        /\ AllUsed(before[Rx])
        /\ ~c.ret

\* C7: no two occupied slots hold the same id, every occupied slot holds an id
\* in 0..62, and subscribe with an id above 62 returns false and changes no slot.
C7_RegistryInvariant ==
    LET c == lastCall[Rx]
        slots == erpc[Rx].topics_
    IN  /\ DistinctIds(slots)
        /\ \A i \in DOMAIN slots : slots[i].used => slots[i].topicId \in 0 .. MAX_TOPIC_ID
        /\ (c.op = "subscribe" /\ c.topicId > MAX_TOPIC_ID
              => ~c.ret /\ slots = before[Rx])

C7_Witness ==
    LET c == lastCall[Rx]
        slots == erpc[Rx].topics_
    IN  /\ c.op = "subscribe" /\ c.topicId > MAX_TOPIC_ID /\ ~c.ret
        /\ \E i, j \in DOMAIN slots : i # j /\ slots[i].used /\ slots[j].used

\* ------------------------------------------------------------------------
\* Decoder claims
\* ------------------------------------------------------------------------
\* every byte of the frame last published towards e has been handled
Consumed(e) == sent[e] # NoFrame /\ link[e] = <<>> /\ stack[e] = <<>>

\* the frame was published intact to an idle decoder, on an id in 0..62 that
\* an occupied slot held
FedSubscribed(e) ==
    /\ sent[e].intact /\ sent[e].idle
    /\ sent[e].topicId \in 0 .. MAX_TOPIC_ID
    /\ sent[e].cb \in Callbacks

\* the one call the frame's subscriber is owed
Delivery(f, status) ==
    [cb |-> f.cb, topicId |-> f.topicId, data |-> f.data, length |-> Len(f.data),
     status |-> status]

Esc(byte) ==
    IF byte = FRAME_START \/ byte = ESCAPE_CHARACTER
    THEN <<ESCAPE_CHARACTER, byte>> ELSE <<byte>>

\* an acknowledgment frame on the wire: start, info (topic 63, ack bit), length 1,
\* the status, the checksum of the three
AckWire(status) ==
    LET crc == CrcAdd(CrcAdd(CrcAdd(0, 127), 1), status)
    IN  <<126, 127, 127, 1>> \o Esc(status) \o Esc(crc \div 256) \o Esc(crc % 256)

\* C1: the bytes of publish(t, payload, length, false), 0 <= length, fed to an
\* idle decoder with t subscribed, invoke t's callback exactly once with the
\* same id, length, payload and NO_ERROR, and leave the decoder in IDLE.
C1_RoundTrip ==
    FedSubscribed(Rx) /\ ~sent[Rx].ackReq /\ Consumed(Rx)
      => /\ cbCount[Rx] = 1
         /\ lastCb[Rx] = Delivery(sent[Rx], NO_ERROR)
         /\ erpc[Rx].currentState = IDLE

\* C4: a frame on an id that was unsubscribed (true returned) and not subscribed
\* again reaches no callback and is answered by no acknowledgment.
C4_UnsubscribedDropped ==
    sent[Rx].intact /\ sent[Rx].idle /\ sent[Rx].unsub
      => cbCount[Rx] = 0 /\ wrote[Rx] = <<>>

\* C8: a valid frame with the acknowledgment-requested bit clear on a subscribed
\* id, fed to an idle decoder, invokes the callback exactly once with the
\* payload and NO_ERROR, and the receiver writes nothing.
C8_NoAckRequested ==
    /\ (FedSubscribed(Rx) /\ ~sent[Rx].ackReq => wrote[Rx] = <<>>)
    /\ (FedSubscribed(Rx) /\ ~sent[Rx].ackReq /\ Consumed(Rx)
          => cbCount[Rx] = 1 /\ lastCb[Rx] = Delivery(sent[Rx], NO_ERROR))

\* C9: a valid frame with the acknowledgment-requested bit set on a subscribed
\* id is answered by exactly one acknowledgment frame carrying the status the
\* callback returned, written only after the callback has returned.
C9_AckAfterCallback ==
    FedSubscribed(Rx) /\ sent[Rx].ackReq
      => /\ (lastRet[Rx] = NONE => wrote[Rx] = <<>>)
         /\ (Consumed(Rx) => lastRet[Rx] # NONE /\ wrote[Rx] = AckWire(lastRet[Rx]))

\* the parts of C8 and C9 for payloads of length >= 1
C8_NoAckRequestedNonEmpty == sent[Rx].data # <<>> => C8_NoAckRequested
C9_AckAfterCallbackNonEmpty == sent[Rx].data # <<>> => C9_AckAfterCallback

RECURSIVE CrcOver(_, _)
CrcOver(crc, bytes) ==
    IF bytes = <<>> THEN crc
    ELSE IF Len(bytes) = 1 THEN CrcAdd(crc, bytes[1])
    ELSE LET mid == Len(bytes) \div 2
             first == CrcOver(crc, SubSeq(bytes, 1, mid))
         IN  IF first \in 0 .. 65535
             THEN CrcOver(first, SubSeq(bytes, mid + 1, Len(bytes)))
             ELSE first

\* C2: a frame with a payload of length >= 1, whatever marker values its
\* payload, length byte or checksum bytes hold, delivers exactly the original
\* payload with NO_ERROR, and the receive checksum was fed exactly the logical
\* info, length and payload bytes.
C2_EscapingCorrect ==
    FedSubscribed(Rx) /\ sent[Rx].data # <<>> /\ Consumed(Rx)
      => /\ cbCount[Rx] = 1
         /\ lastCb[Rx] = Delivery(sent[Rx], NO_ERROR)
         /\ erpc[Rx].receiveCrc16 =
              CrcOver(0, <<InfoByte(sent[Rx].topicId, FALSE, sent[Rx].ackReq),
                           Len(sent[Rx].data)>> \o sent[Rx].data)

C2_Witness ==
    /\ FedSubscribed(Rx) /\ Consumed(Rx)
    /\ sent[Rx].data = LongMarkers
    /\ lastCb[Rx].data = LongMarkers

\* C10: a data frame of declared length >= 1 on a subscribed id whose received
\* checksum differs from the accumulated one invokes the callback exactly once,
\* with CRC_ERROR, and nothing is written from then on.
C10_CrcError ==
    LET c == crcSeen[Rx]
    IN  c.done /\ ~c.valid /\ ~c.isAck /\ c.cb \in Callbacks /\ c.length >= 1
          => /\ cbCount[Rx] = c.cbBefore + 1
             /\ lastCb[Rx].cb = c.cb
             /\ lastCb[Rx].status = CRC_ERROR
             /\ wrote[Rx] = c.wroteBefore

C10_Witness ==
    LET c == crcSeen[Rx]
    IN  /\ c.done /\ ~c.valid /\ ~c.isAck /\ c.cb \in Callbacks /\ c.length >= 1
        /\ c.ackReq
        /\ lastRet[Rx] = NO_ERROR
        /\ stack[Rx] = <<>>

\* C11: an acknowledgment frame whose checksum does not match invokes no
\* callback, writes nothing, leaves receivedValidAck false and receivedAckStatus
\* as it was, and the publish() that waited for it returns ACK_TIMEOUT_ERROR.
C11_BadAckDiscarded ==
    LET c == crcSeen[Tx]
    IN  c.done /\ ~c.valid /\ c.isAck
          => /\ cbCount[Tx] = c.cbBefore
             /\ wrote[Tx] = c.wroteBefore
             /\ ~c.validAckBefore /\ ~erpc[Tx].receivedValidAck
             /\ erpc[Tx].receivedAckStatus = c.ackStatusBefore
             /\ (AtApp(Tx) => lastPublish[Tx] = ACK_TIMEOUT_ERROR)

C11_Witness ==
    LET c == crcSeen[Tx]
    IN  /\ c.done /\ ~c.valid /\ c.isAck
        /\ AtApp(Tx) /\ link[Tx] = <<>>
        /\ lastPublish[Tx] = ACK_TIMEOUT_ERROR
        /\ lastRet[Rx] = PROCESSING_ERROR

\* C12: a well-formed frame on an id that no slot holds, fed to an idle
\* decoder, invokes no callback of any topic and makes the receiver write
\* nothing, whatever bytes its payload holds.
C12_NoSubscriberSilent ==
    /\ sent[Rx].intact /\ sent[Rx].idle
    /\ getTopicIdx(erpc[Rx], sent[Rx].topicId) = NOT_FOUND
    => cbCount[Rx] = 0 /\ wrote[Rx] = <<>>

\* e's publish() with acknowledgment requested has returned
Returned(e) == AtApp(e) /\ ~Waiting(e) /\ lastPublish[e] # NONE

\* C13: on a lossless link, from idle decoders and an empty link, publish()
\* with acknowledgment requested to a subscribed, polling peer returns the
\* status the peer's callback returned, when the acknowledgment frame was
\* decoded before timeoutMs had elapsed.
C13_AckSuccess ==
    /\ Returned(Tx) /\ FedSubscribed(Rx)
    /\ timer[Tx].decoded /\ timer[Tx].decodedAt < timer[Tx].timeoutMs
    => lastPublish[Tx] = lastRet[Rx]

\* the part of C13 for a publish() that was released by the acknowledgment
C13_AckSuccessReleased ==
    Returned(Tx) /\ FedSubscribed(Rx) /\ lastPublish[Tx] # ACK_TIMEOUT_ERROR
      => timer[Tx].decoded /\ lastPublish[Tx] = lastRet[Rx]

\* C14: publish() returns the status of the valid acknowledgment frame decoded
\* during its wait, and ACK_TIMEOUT_ERROR only when none was decoded.
C14_AckWins ==
    Returned(Tx)
      => /\ (timer[Tx].decoded => lastPublish[Tx] = timer[Tx].status)
         /\ (lastPublish[Tx] = ACK_TIMEOUT_ERROR => ~timer[Tx].decoded)

\* C15: publish() returns ACK_TIMEOUT_ERROR only when at least timeoutMs have
\* elapsed since the wait began, and a wait during which nothing arrives ends.
C15_TimeoutNotEarly ==
    Returned(Tx) /\ lastPublish[Tx] = ACK_TIMEOUT_ERROR
      => timer[Tx].atReturn >= timer[Tx].timeoutMs

C15_Timeout ==
    /\ []C15_TimeoutNotEarly
    /\ (Waiting(Tx) ~> (~Waiting(Tx) \/ link[Tx] # <<>>))

C15_Witness ==
    /\ Returned(Tx) /\ lastPublish[Tx] = ACK_TIMEOUT_ERROR
    /\ timer[Tx].timeoutMs = MaxTimeout
    /\ timer[Tx].atReturn = MaxTimeout
    /\ now < timer[Tx].startTime
    /\ sent[Rx].cb = NULL

\* C16: publish() with acknowledgment requested returns, whatever bytes arrive.
C16_PublishReturns == Waiting(Tx) ~> ~Waiting(Tx)

\* C17: of publishes with acknowledgment issued one after another to a
\* subscribed, polling peer over a lossless link, one that returns something
\* other than ACK_TIMEOUT_ERROR returns what the peer's callback returned for
\* the frame of that same publish
C17_OwnAck ==
    Returned(Tx) /\ lastPublish[Tx] # ACK_TIMEOUT_ERROR
        => answered[nFrames] = lastPublish[Tx]


\* a frame on a subscribed topic was published to e while e was inside the
\* waitForAcknowledge of its own publish, which has returned since
ArrivedInWait(e) ==
    /\ pubObs[e].done /\ pubObs[e].ackReq /\ ~Waiting(e)
    /\ pubObs[Peer(e)].done /\ pubObs[Peer(e)].peerWaiting
    /\ sent[e].intact /\ sent[e].cb \in Callbacks

\* what has been done for the frame published to e
Served(e) ==
    /\ cbCount[e] = 1
    /\ lastCb[e] = Delivery(sent[e], NO_ERROR)
    /\ sent[e].ackReq => wrote[e] = AckWire(lastRet[e])

\* the first half of C18: such a frame has been given to its callback once,
\* and acknowledged if it asked for it
C18_ServedInWait ==
    \A e \in Ends :
        ArrivedInWait(e) => Served(e)

\* both endpoints published with acknowledgment requested, the second one
\* before it had read any byte of the first one's frame
AtOnce ==
    /\ \A e \in Ends : pubObs[e].done /\ pubObs[e].ackReq /\ sent[e].cb \in Callbacks
    /\ \E e \in Ends :
          /\ sent[e].idle
          /\ pubObs[e].peerWaiting
          /\ pubObs[e].before.currentState = IDLE
          /\ pubObs[e].linkBefore # <<>> /\ Head(pubObs[e].linkBefore) = FRAME_START

\* both endpoints wait, nothing is on its way and no callback runs: only the
\* deadlines can end the waits
Starved ==
    \A e \in Ends :
        /\ Waiting(e) /\ ~erpc[e].receivedValidAck
        /\ link[e] = <<>> /\ (InWait(e) \/ InLoop(e))

\* the second half of C18: the exchange does not starve, and a publish that
\* returns before its deadline returns what the peer's callback returned
C18_MutualSucceeds ==
    AtOnce =>
        /\ ~Starved
        /\ \A e \in Ends :
              Returned(e) /\ timer[e].atReturn < timer[e].timeoutMs
                  => lastPublish[e] = lastRet[Peer(e)]

\* C18: a valid frame on a subscribed topic that arrives while publish() waits
\* for its acknowledgment is given to its callback exactly once before
\* publish() returns, and acknowledged if it asked for it; two endpoints that
\* publish to each other at once, acknowledgment requested, both get the
\* status the other's callback returned
C18_ServedWhileWaiting == C18_ServedInWait /\ C18_MutualSucceeds

\* the same for frames that carry at least one byte
C18_ServedInWaitNonEmpty ==
    (\A e \in Ends : sent[e].data # <<>>) => C18_ServedInWait
C18_MutualSucceedsNonEmpty ==
    (\A e \in Ends : sent[e].data # <<>>) => C18_MutualSucceeds

\* a frame of at least one byte that arrived during the wait and of which
\* nothing is left to read when publish() returns has been served
C18_ServedWhenDrained ==
    [][\A e \in Ends :
          /\ Waiting(e) /\ ~Waiting(e)' /\ ArrivedInWait(e)'
          /\ link[e] = <<>> /\ sent[e].data # <<>>
          => Served(e)]_vars


\* loop() is inside serialByteReadRaw (168), waiting for a byte
BlockedInRead(e) == InLoop(e) /\ link[e] # <<>> /\ ~ReadReady(link[e])

\* C19: loop() called with some bytes available and none arriving later is
\* never left waiting for a byte, whatever the available bytes are
C19_LoopNeverBlocks == ~BlockedInRead(Rx)


\* C20: publish() with no acknowledgment requested writes the frame and
\* returns NO_ERROR; of the object it changes the send checksum only (the
\* decoder state, the receive checksum, the payload buffer and its counter,
\* receivedValidAck, receivedAckStatus and the slots stay as they were), and
\* it reads no inbound byte
C20_PublishNoAck ==
    LET p == pubObs[Tx]
    IN  p.done /\ ~p.ackReq =>
            /\ lastPublish[Tx] = NO_ERROR
            /\ p.written # <<>> /\ Head(p.written) = FRAME_START
            /\ p.after = [p.before EXCEPT !.sendCrc16 = p.after.sendCrc16]
            /\ p.linkAfter = p.linkBefore

\* publish() was called with the decoder inside a frame, an acknowledgment
\* status other than NO_ERROR in place and bytes waiting to be read
C20_Witness ==
    LET p == pubObs[Tx]
    IN  /\ p.done /\ ~p.ackReq
        /\ lastPublish[Tx] = NO_ERROR
        /\ p.before.currentState = RECEIVING_DATA
        /\ p.before.receivedDataCounter > 0
        /\ p.before.topics_[0].used
        /\ p.linkBefore # <<>>
        /\ p.after.sendCrc16 # p.before.sendCrc16


\* a frame on a subscribed id was published to an idle e and one bit of it
\* was inverted on the way
Flipped(e) == sent[e].idle /\ sent[e].cb \in Callbacks /\ ~sent[e].intact

\* C21: a valid data frame on a subscribed topic with one bit of its INFO,
\* LENGTH or DATA region inverted is reported as a checksum mismatch: once
\* its bytes are read its callback has been invoked with CRC_ERROR, it is
\* never invoked with NO_ERROR, and no acknowledgment is written
C21_FlipDetected ==
    Flipped(Rx) =>
        /\ lastCb[Rx].status # NO_ERROR
        /\ wrote[Rx] = <<>>
        /\ Consumed(Rx) =>
              /\ cbCount[Rx] = 1
              /\ lastCb[Rx].cb = sent[Rx].cb
              /\ lastCb[Rx].status = CRC_ERROR


\* the logical bytes with an escape marker before each marker value
RECURSIVE EscAll(_)
EscAll(bytes) ==
    IF bytes = <<>> THEN <<>>
    ELSE IF Len(bytes) = 1 THEN Esc(bytes[1])
    ELSE LET mid == Len(bytes) \div 2
         IN  EscAll(SubSeq(bytes, 1, mid)) \o EscAll(SubSeq(bytes, mid + 1, Len(bytes)))

\* the frame of the logical bytes body (INFO, LENGTH, DATA) as it should be
\* written: start marker, body, checksum of the body high byte first
WireOf(body) ==
    LET crc == CrcOver(0, body)
    IN  <<FRAME_START>> \o EscAll(body \o <<crc \div 256, crc % 256>>)

\* the number of escape markers in a row that end just before position i
EscapesBefore(w, i) ==
    CHOOSE n \in 0 .. i - 1 :
        /\ \A j \in i - n .. i - 1 : w[j] = ESCAPE_CHARACTER
        /\ i - n - 1 = 0 \/ w[i - n - 1] # ESCAPE_CHARACTER

\* w begins with a start marker and holds no other one that is not escaped
OnlyStartBare(w) ==
    /\ w # <<>> /\ w[1] = FRAME_START
    /\ \A i \in 2 .. Len(w) :
          w[i] = FRAME_START => EscapesBefore(w, i) % 2 = 1

\* C22: a frame written by publish() or sendAcknowledgeFrame() is a raw start
\* marker followed by INFO, LENGTH, DATA and the checksum, high byte first,
\* each byte of value 0x7E or 0x7F with one escape marker before it, so that
\* the only start marker not escaped is the first byte; the send checksum has
\* been fed INFO, LENGTH and DATA, in that order, and nothing else
C22_WireFormat ==
    /\ pubObs[Tx].done =>
          LET f == sent[Rx]
              body == <<InfoByte(f.topicId, FALSE, f.ackReq), Len(f.data)>> \o f.data
          IN  /\ pubObs[Tx].written = WireOf(body)
              /\ OnlyStartBare(pubObs[Tx].written)
              /\ pubObs[Tx].after.sendCrc16 = CrcOver(0, body)
    /\ wrote[Rx] # <<>> =>
          LET body == <<InfoByte(ACK_TOPIC, TRUE, FALSE), 1, lastRet[Rx]>>
          IN  /\ wrote[Rx] = WireOf(body)
              /\ OnlyStartBare(wrote[Rx])
              /\ erpc[Rx].sendCrc16 = CrcOver(0, body)

\* a frame whose payload and length byte are marker values was published,
\* and the acknowledgment it asked for was written
C22_Witness ==
    /\ pubObs[Tx].done /\ sent[Rx].ackReq
    /\ Len(sent[Rx].data) = FRAME_START
    /\ Len(pubObs[Tx].written) > 2 * FRAME_START
    /\ wrote[Rx] # <<>>

\* a frame whose checksum holds a marker value was published
C22_WitnessCrc ==
    /\ pubObs[Tx].done
    /\ \E b \in {pubObs[Tx].after.sendCrc16 \div 256, pubObs[Tx].after.sendCrc16 % 256} :
          b \in {FRAME_START, ESCAPE_CHARACTER}


\* C23: frames with the acknowledgment bit set, whatever their topic field,
\* acknowledgment-requested bit, length and checksum, make the receiver write
\* nothing and invoke no callback
C23_AckNeverAnswered ==
    sent[Rx].isAck =>
        /\ cbCount[Rx] = 0
        /\ ~InCallback(Rx)
        /\ wrote[Rx] = <<>>

\* a frame with the acknowledgment bit and the acknowledgment-requested bit
\* set, the id of a subscribed topic and the right checksum has been decoded
C23_Witness ==
    /\ crcSeen[Rx].done /\ crcSeen[Rx].valid /\ crcSeen[Rx].isAck /\ crcSeen[Rx].ackReq
    /\ sent[Rx].isAck /\ sent[Rx].cb \in Callbacks
    /\ erpc[Rx].currentState = IDLE /\ Quiet(Rx)


\* C24: a complete valid data frame on a subscribed topic that follows a
\* truncated frame is given to its callback exactly once, with its own
\* payload and NO_ERROR
C24_Resync ==
    nFrames = 2 /\ sent[Rx].intact /\ sent[Rx].cb \in Callbacks /\ Consumed(Rx)
        => /\ cbCount[Rx] = 1
           /\ lastCb[Rx] = Delivery(sent[Rx], NO_ERROR)


\* e called publish() with acknowledgment requested while its decoder was
\* inside a valid frame of at least one byte on a subscribed topic
SplitByPublish(e) ==
    /\ pubObs[e].done /\ pubObs[e].ackReq
    /\ pubObs[e].before.currentState # IDLE
    /\ sent[e].idle /\ sent[e].intact /\ sent[e].cb \in Callbacks
    /\ sent[e].data # <<>>

\* C25: a valid data frame on a subscribed topic of which loop() has read a
\* part when the application calls publish() with acknowledgment requested is
\* completed during the wait and given to its callback exactly once
C25_SplitFrameDelivered ==
    \A e \in Ends :
        SplitByPublish(e) /\ ~Waiting(e) /\ Consumed(e)
            => /\ cbCount[e] = 1
               /\ lastCb[e] = Delivery(sent[e], NO_ERROR)


\* no byte has been stored past the end of the payload buffer
C26_NoOverrun == \A e \in Ends : ~erpc[e].receivedData.overrun

\* StateHandleReceivingData is about to be entered with a byte
EntersData(e) ==
    /\ erpc[e].currentState = RECEIVING_DATA
    /\ ReadReady(link[e]) /\ (AtApp(e) \/ InWait(e) \/ InLoop(e))

\* C26: a payload byte is stored only at an index below the declared length,
\* inside the buffer allocated for that length, and StateHandleReceivingData
\* is entered with the fill counter below the declared length, also for a
\* frame that declares length 0
C26_BufferBounds ==
    /\ C26_NoOverrun
    /\ \A e \in Ends :
          EntersData(e) => erpc[e].receivedDataCounter < erpc[e].receivedDataLength


\* the callbacks e is inside
Running(e) == {i \in DOMAIN stack[e] : stack[e][i].fn = "callback"}

\* C27: while a callback runs, the payload buffer it was given is still
\* allocated and holds its frame's payload, and the topic id and the length
\* of the decoder are those it was given, also while the callback is inside a
\* publish() with acknowledgment requested
C27_BufferStable ==
    \A e \in Ends :
        Cardinality(Running(e)) = 1 /\ cbCount[e] = 1 =>
            /\ ~erpc[e].receivedData.isNull
            /\ erpc[e].receivedData.bytes = lastCb[e].data
            /\ erpc[e].currentTopicId = lastCb[e].topicId
            /\ erpc[e].receivedDataLength = lastCb[e].length


====
